---- MODULE Spec2Model ----
(***************************************************************************)
(* Point of sale: checkout, stock, cash register.  Browser sessions talk   *)
(* directly to the data store; every awaited store call is one atomic      *)
(* step, so handlers of different sessions interleave between awaits.      *)
(***************************************************************************)
EXTENDS Integers, Sequences, FiniteSets, TLC

\* ---------------------------------------------------------------- bounds
MaxStock == 2
MaxSales == 1
MaxInstallments == 3
MaxRegisters == 2
MaxPurchases == 1
MaxEntries == 3
MaxPayments == 2

\* ------------------------------------------------------------- universes
Sessions == {"s1", "s2"}
Users == {"ua", "uu"}
Products == {"pA", "pB"}
Clients == {"c1"}
NoClient == ""
NoId == 0

\* profiles.role
Role(u) == IF u = "ua" THEN "admin" ELSE "user"
IsAdmin(u) == Role(u) = "admin"

\* products.price
Price(p) == IF p = "pA" THEN 10 ELSE 5

\* <select> options of the payment form
PaymentTypes == {"cash", "installment"}
PaymentMethods == {"pix", "money", "debit", "credit"}
InstallmentOptions == {n \in {2, 3, 4, 5, 6, 10, 12} : n <= MaxInstallments}

\* A JavaScript number that may be NaN: <<>> is NaN, <<v>> the number v.
NaN == <<>>
Num(v) == <<v>>
IsNaN(a) == a = <<>>
\* a < b and a > b are false as soon as one side is NaN
JsLt(a, b) == ~IsNaN(a) /\ ~IsNaN(b) /\ a[1] < b[1]
JsGt(a, b) == ~IsNaN(a) /\ ~IsNaN(b) /\ a[1] > b[1]

\* values typed into the "Valor Pago" field (parseFloat of the text)
\* the prices an administrator gives a product
PriceChoices(p) == {Price(p), Price(p) + 2}

AmountPaidChoices == {NaN, Num(10), Num(100)}
InitialBalanceChoices == {0, 100}

\* An optional row value: <<>> is null, <<v>> is the value.
None == <<>>
Some(v) == <<v>>

\* total / installments, kept exact as a fraction
Quot(a, b) == [num |-> a, den |-> b]
QuotEq(q, a, b) == q.num * b = a * q.den

Min(a, b) == IF a < b THEN a ELSE b

VARIABLES
    \* ---- data store
    stock,          \* products.stock_quantity
    sales,          \* rows of sales, id = index
    saleItems,      \* rows of sale_items
    installments,   \* rows of installments
    registers,      \* rows of cash_registers, id = index
    transactions,   \* rows of cash_transactions
    purchases,      \* number of rows of purchases
    sold,           \* number of rows of sales each session has inserted
    price,          \* products.price
    now,            \* the date, in days
    \* ---- sessions
    userOf,         \* the signed-in user of the session
    products,       \* Sales page: product list
    fetchPending,   \* Sales page: fetchProducts in flight
    cart,           \* Sales page: cart
    stockList,      \* Stock and Products pages: product list
    stockPending,   \* Stock page: fetchProducts in flight
    register,       \* CashFlow page: the register shown
    ledger,         \* CashFlow page: the transactions shown
    ledgerPending,  \* CashFlow page: register of the fetchTransactions in flight
    instList,       \* Installments page: the installments shown
    instPending,    \* Installments page: fetchInstallments in flight
    repair,         \* CashFlow page: the running fixZeroTransactions
    filters,        \* Installments page: search term, status filter, view mode
    clientGroups,   \* Installments page: the groups shown
    timeZone,       \* the offset of the session's local time from UTC
    pc,             \* position of the running handler
    co,             \* values captured by the running handleCheckout
    job,            \* values captured by the other running handlers
    result          \* what the last handleCheckout told the operator

storeVars == <<stock, sales, saleItems, installments, registers,
               transactions, purchases>>
viewVars == <<products, fetchPending, cart, stockList, stockPending, register>>
\* product prices and the views of the CashFlow and Installments pages
pageVars == <<price, ledger, ledgerPending, instList, instPending>>
\* the auto-repair of the CashFlow page, the grouping of the Installments page
extraVars == <<repair, filters, clientGroups, timeZone>>
vars == <<stock, sales, saleItems, installments, registers, transactions,
          purchases, sold, price, now, userOf, products, fetchPending, cart,
          stockList, stockPending, register, ledger, ledgerPending, instList,
          instPending, repair, filters, clientGroups, timeZone, pc, co, job,
          result>>

\* ------------------------------------------------- row-level policies
CanUpdateProducts(u) == IsAdmin(u)
CanInsertSales(u, row) == IsAdmin(u) \/ row.user_id = u
CanInsertSaleItems(u, saleId) == IsAdmin(u) \/ sales[saleId].user_id = u
CanInsertInstallments(u) == IsAdmin(u)
CanInsertCashRegisters(u, row) == IsAdmin(u) \/ row.user_id = u
CanInsertCashTransactions(u, regId) ==
    IsAdmin(u) \/ registers[regId].user_id = u
CanInsertPurchases(u) == u \in Users

\* cash_registers rows with user_id = u and status = 'open'
OpenRegisters(u) ==
    {r \in 1..Len(registers) :
        registers[r].user_id = u /\ registers[r].status = "open"}

\* .single(): the row when exactly one row matches, else null
Single(rows) ==
    IF Cardinality(rows) = 1 THEN Some(CHOOSE r \in rows : TRUE) ELSE None

\* the rows fetchProducts of the Sales page gets: stock_quantity > 0
ProductList(st) ==
    {[id |-> p, price |-> price[p], stock_quantity |-> st[p]] :
        p \in {q \in DOMAIN st : st[q] > 0}}

\* ------------------------------------------------------------- Init
NoCheckout ==
    [client |-> NoClient, cart |-> <<>>, total |-> 0,
     paymentType |-> "cash", paymentMethod |-> "pix", installments |-> 2,
     amountPaid |-> Num(0), sale |-> NoId, line |-> 0,
     currentProduct |-> None, register |-> None, scheduledAt |-> 0,
     openAtLookup |-> FALSE, errors |-> {}, stockBefore |-> <<>>]

\* what handleCheckout told the operator, and what it had met on its way
NoResult ==
    [outcome |-> "none", alert |-> "", sale |-> NoId, errors |-> {},
     openAtLookup |-> FALSE]
Outcome(c, outcome, alert) ==
    [outcome |-> outcome, alert |-> alert, sale |-> c.sale,
     errors |-> c.errors, openAtLookup |-> c.openAtLookup]

\* no fixZeroTransactions is running
NoRepair == [items |-> <<>>, found |-> None, updated |-> FALSE, reg |-> NoId]

\* the filters of the Installments page as it is mounted
NoFilters == [searchTerm |-> <<>>, statusFilter |-> "all", viewMode |-> "all"]

NoJob ==
    [product |-> "", quantity |-> 0, balance |-> 0, reg |-> NoId,
     installment |-> NoId, amount |-> Quot(0, 1)]

Init ==
    /\ stock \in {[p \in cat |-> MaxStock] : cat \in SUBSET Products \ {{}}}
    /\ sales = <<>>
    /\ saleItems = {}
    /\ installments = {}
    /\ registers = <<>>
    /\ transactions = <<>>
    /\ purchases = 0
    /\ sold = [s \in Sessions |-> 0]
    /\ price = [p \in Products |-> Price(p)]
    /\ now = 1
    /\ userOf \in [Sessions -> Users]
    /\ products = [s \in Sessions |-> ProductList(stock)]
    /\ fetchPending = [s \in Sessions |-> FALSE]
    /\ cart = [s \in Sessions |-> <<>>]
    /\ stockList = [s \in Sessions |-> stock]
    /\ stockPending = [s \in Sessions |-> FALSE]
    /\ register = [s \in Sessions |-> NoId]
    /\ ledger = [s \in Sessions |-> <<>>]
    /\ ledgerPending = [s \in Sessions |-> NoId]
    /\ instList = [s \in Sessions |-> {}]
    /\ instPending = [s \in Sessions |-> FALSE]
    /\ repair = [s \in Sessions |-> NoRepair]
    /\ filters = [s \in Sessions |-> NoFilters]
    /\ clientGroups = [s \in Sessions |-> <<>>]
    /\ timeZone = [s \in Sessions |-> 0]
    /\ pc = [s \in Sessions |-> "idle"]
    /\ co = [s \in Sessions |-> NoCheckout]
    /\ job = [s \in Sessions |-> NoJob]
    /\ result = [s \in Sessions |-> NoResult]

\* ------------------------------------------------------- Sales page
\* fetchProducts: products with stock_quantity > 0
FetchProducts(s) ==
    /\ fetchPending[s]
    /\ products' = [products EXCEPT ![s] = ProductList(stock)]
    /\ fetchPending' = [fetchPending EXCEPT ![s] = FALSE]
    /\ UNCHANGED <<extraVars,
                   pageVars,
                   storeVars, sold, now, userOf, cart, stockList, stockPending,
                   register, pc, co, job, result>>

CartIndex(c, id) == {i \in 1..Len(c) : c[i].id = id}

addToCartNoCap(current, product) ==
    IF CartIndex(current, product.id) # {}
    THEN [j \in 1..Len(current) |->
            IF current[j].id = product.id
            THEN [current[j] EXCEPT !.quantity = @ + 1]
            ELSE current[j]]
    ELSE Append(current, [id |-> product.id, price |-> product.price,
                          stock_quantity |-> product.stock_quantity,
                          quantity |-> 1])

addToCart(current, product) ==
    IF CartIndex(current, product.id) # {}
    THEN LET i == CHOOSE j \in CartIndex(current, product.id) :
                     \A k \in CartIndex(current, product.id) : j <= k
         IN IF current[i].quantity >= product.stock_quantity
            THEN current
            ELSE [j \in 1..Len(current) |->
                    IF current[j].id = product.id
                    THEN [current[j] EXCEPT !.quantity = @ + 1]
                    ELSE current[j]]
    ELSE Append(current, [id |-> product.id, price |-> product.price,
                          stock_quantity |-> product.stock_quantity,
                          quantity |-> 1])

removeFromCart(current, productId) ==
    SelectSeq(current, LAMBDA item : item.id # productId)

updateQuantity(current, productId, delta) ==
    [j \in 1..Len(current) |->
        IF current[j].id = productId
        THEN LET newQuantity == current[j].quantity + delta
             IN IF newQuantity < 1 THEN current[j]
                ELSE IF newQuantity > current[j].stock_quantity THEN current[j]
                ELSE [current[j] EXCEPT !.quantity = newQuantity]
        ELSE current[j]]

\* cart.reduce((sum, item) => sum + (item.price * item.quantity), 0)
RECURSIVE total(_)
total(c) ==
    IF c = <<>> THEN 0
    ELSE Head(c).price * Head(c).quantity + total(Tail(c))

AddToCart(s) ==
    /\ pc[s] = "idle"
    /\ \E product \in products[s] :
          cart' = [cart EXCEPT ![s] = addToCart(cart[s], product)]
    /\ UNCHANGED <<extraVars,
                   pageVars,
                   storeVars, sold, now, userOf, products, fetchPending, stockList,
                   stockPending, register, pc, co, job, result>>

RemoveFromCart(s) ==
    /\ pc[s] = "idle"
    /\ \E i \in 1..Len(cart[s]) :
          cart' = [cart EXCEPT ![s] = removeFromCart(cart[s], cart[s][i].id)]
    /\ UNCHANGED <<extraVars,
                   pageVars,
                   storeVars, sold, now, userOf, products, fetchPending, stockList,
                   stockPending, register, pc, co, job, result>>

UpdateQuantity(s) ==
    /\ pc[s] = "idle"
    /\ \E i \in 1..Len(cart[s]), delta \in {-1, 1} :
          cart' = [cart EXCEPT ![s] =
                      updateQuantity(cart[s], cart[s][i].id, delta)]
    /\ UNCHANGED <<extraVars,
                   pageVars,
                   storeVars, sold, now, userOf, products, fetchPending, stockList,
                   stockPending, register, pc, co, job, result>>

\* ------------------------------------------------- handleCheckout
PaymentMethodTag(c) ==
    IF c.paymentType = "installment"
    THEN [method |-> "credit_card", times |-> c.installments]
    ELSE [method |-> c.paymentMethod, times |-> 0]

CheckoutAlertNoAmountCheck(c) ==
    IF c.client = NoClient THEN "Selecione um cliente"
    ELSE IF Len(c.cart) = 0 THEN "Carrinho vazio"
    ELSE ""

\* the three early returns: the alert shown, "" when the checkout goes on
CheckoutAlert(c) ==
    IF c.client = NoClient THEN "Selecione um cliente"
    ELSE IF Len(c.cart) = 0 THEN "Carrinho vazio"
    ELSE IF /\ c.paymentType = "cash"
            /\ c.paymentMethod = "money"
            /\ JsLt(c.amountPaid, Num(c.total))
         THEN "Valor pago insuficiente"
    ELSE ""

saleItemsOfStoredPrice(c, saleId) ==
    {[sale_id |-> saleId, product_id |-> c.cart[i].id,
      quantity |-> c.cart[i].quantity, unit_price |-> price[c.cart[i].id]] :
        i \in 1..Len(c.cart)}

saleItemsOf(c, saleId) ==
    {[sale_id |-> saleId, product_id |-> c.cart[i].id,
      quantity |-> c.cart[i].quantity, unit_price |-> c.cart[i].price] :
        i \in 1..Len(c.cart)}

installmentDataFromZero(c, saleId, today) ==
    {[sale_id |-> saleId, installment_number |-> index + 1,
      due_date |-> today + 30 * index,
      amount |-> Quot(c.total, c.installments), status |-> "pending"] :
        index \in 0..(c.installments - 1)}

installmentData(c, saleId, today) ==
    {[sale_id |-> saleId, installment_number |-> index + 1,
      due_date |-> today + 30 * (index + 1),
      amount |-> Quot(c.total, c.installments), status |-> "pending"] :
        index \in 0..(c.installments - 1)}

saleTransactionAmountTendered(c) ==
    IF c.paymentMethod = "money" THEN c.amountPaid ELSE Num(c.total)

\* paymentMethod === 'money' ? (amountPaid > total ? total : amountPaid) : total
saleTransactionAmount(c) ==
    IF c.paymentMethod = "money"
    THEN (IF JsGt(c.amountPaid, Num(c.total)) THEN Num(c.total)
          ELSE c.amountPaid)
    ELSE Num(c.total)

\* what follows the stock update of line c.line
AfterLine(c) ==
    IF c.line < Len(c.cart) THEN "stock_select" ELSE "receipt"

\* the handler goes on to its next await, or ends with the success alert
Continue(s, c, next) ==
    IF next = "done"
    THEN /\ pc' = [pc EXCEPT ![s] = "idle"]
         /\ co' = [co EXCEPT ![s] = NoCheckout]
         /\ result' = [result EXCEPT ![s] =
                Outcome(c, "success", "Venda realizada com sucesso!")]
         /\ cart' = [cart EXCEPT ![s] = <<>>]
         /\ fetchPending' = [fetchPending EXCEPT ![s] = TRUE]
    ELSE /\ pc' = [pc EXCEPT ![s] = next]
         /\ co' = [co EXCEPT ![s] =
                  IF next = "stock_select" THEN [c EXCEPT !.line = @ + 1]
                  ELSE c]
         /\ UNCHANGED <<result, cart, fetchPending>>

CheckoutCatchUndo(s, stage) ==
    /\ pc' = [pc EXCEPT ![s] = "idle"]
    /\ co' = [co EXCEPT ![s] = NoCheckout]
    /\ result' = [result EXCEPT ![s] =
                     Outcome([co[s] EXCEPT !.errors = @ \cup {stage}],
                             "error", "Erro ao processar venda")]
    /\ saleItems' = {i \in saleItems : i.sale_id # co[s].sale}
    /\ UNCHANGED <<extraVars,
                   stock, sales, installments, registers, transactions,
                   purchases, sold, cart, fetchPending>>

\* catch: the error is shown, nothing is written
CheckoutCatch(s, stage) ==
    /\ pc' = [pc EXCEPT ![s] = "idle"]
    /\ co' = [co EXCEPT ![s] = NoCheckout]
    /\ result' = [result EXCEPT ![s] =
                     Outcome([co[s] EXCEPT !.errors = @ \cup {stage}],
                             "error", "Erro ao processar venda")]
    /\ UNCHANGED <<extraVars,
                   storeVars, sold, cart, fetchPending>>

\* the payment forms handleCheckout is run with; a field the chosen payment
\* type does not show is taken at its initial value
PaymentForms(clients, types, methods, paid) ==
    {f \in [client : clients, paymentType : types, paymentMethod : methods,
            installments : InstallmentOptions,
            amountPaid : paid \cup {Num(0)}] :
        /\ f.paymentType = "installment" => f.paymentMethod = "pix"
        /\ f.paymentType = "cash" => f.installments = 2
        /\ f.paymentMethod # "money" => f.amountPaid = Num(0)}

CheckoutBegin(s, form) ==
    /\ pc[s] = "idle"
    /\ sold[s] < MaxSales
    /\ UNCHANGED <<extraVars,
                   pageVars,
                   storeVars, sold, now, userOf, products, fetchPending, cart,
                   stockList, stockPending, register, job>>
    /\ LET c == [NoCheckout EXCEPT
                    !.client = form.client, !.cart = cart[s],
                    !.total = total(cart[s]),
                    !.paymentType = form.paymentType,
                    !.paymentMethod = form.paymentMethod,
                    !.installments = form.installments,
                    !.amountPaid = form.amountPaid,
                    !.stockBefore = stock]
       IN IF CheckoutAlert(c) # ""
          THEN /\ result' = [result EXCEPT ![s] =
                               Outcome(c, "rejected", CheckoutAlert(c))]
               /\ UNCHANGED <<pc, co>>
          ELSE /\ result' = [result EXCEPT ![s] = NoResult]
               /\ co' = [co EXCEPT ![s] = c]
               /\ pc' = [pc EXCEPT ![s] = "insert_sale"]

\* 1. Create Sale
InsertSale(s, ok) ==
    /\ pc[s] = "insert_sale"
    /\ LET c == co[s]
              row == [client_id |-> c.client, user_id |-> userOf[s],
                      total_amount |-> c.total,
                      payment_method |-> PaymentMethodTag(c),
                      created_at |-> now]
          IN IF ok /\ CanInsertSales(userOf[s], row)
             THEN /\ sales' = Append(sales, row)
                  /\ sold' = [sold EXCEPT ![s] = @ + 1]
                  /\ Continue(s, [c EXCEPT !.sale = Len(sales) + 1],
                              "insert_items")
                  /\ UNCHANGED <<stock, saleItems, installments, registers,
                                 transactions, purchases>>
             ELSE CheckoutCatch(s, "sale")
    /\ UNCHANGED <<extraVars,
                   pageVars,
                   now, userOf, products, stockList, stockPending, register,
                   job>>

\* 2. Create Sale Items
InsertSaleItems(s, ok) ==
    /\ pc[s] = "insert_items"
    /\ LET c == co[s]
          IN IF ok /\ CanInsertSaleItems(userOf[s], c.sale)
             THEN /\ saleItems' = saleItems \cup saleItemsOf(c, c.sale)
                  /\ IF c.paymentType = "installment"
                     THEN Continue(s, [c EXCEPT !.scheduledAt = now],
                                   "insert_installments")
                     ELSE Continue(s, c, "stock_select")
                  /\ UNCHANGED <<stock, sales, installments, registers,
                                 transactions, purchases, sold>>
             ELSE CheckoutCatch(s, "sale_items")
    /\ UNCHANGED <<extraVars,
                   pageVars,
                   now, userOf, products, stockList, stockPending, register,
                   job>>

\* 3. Create Installments if applicable
InsertInstallments(s, ok) ==
    /\ pc[s] = "insert_installments"
    /\ LET c == co[s]
          IN IF ok /\ CanInsertInstallments(userOf[s])
             THEN /\ installments' = installments \cup
                        installmentData(c, c.sale, c.scheduledAt)
                  /\ Continue(s, c, "stock_select")
                  /\ UNCHANGED <<stock, sales, saleItems, registers,
                                 transactions, purchases, sold>>
             ELSE CheckoutCatch(s, "installments")
    /\ UNCHANGED <<extraVars,
                   pageVars,
                   now, userOf, products, stockList, stockPending, register,
                   job>>

\* 4. Update Stock: the read of one cart line
StockSelect(s, ok) ==
    /\ pc[s] = "stock_select"
    /\ LET c == co[s]
              item == c.cart[c.line]
          IN IF ok
             THEN /\ pc' = [pc EXCEPT ![s] = "stock_update"]
                  /\ co' = [co EXCEPT ![s].currentProduct =
                                                     Some(stock[item.id])]
                  /\ UNCHANGED <<result, cart, fetchPending>>
             ELSE Continue(s, [c EXCEPT !.currentProduct = None,
                                        !.errors = @ \cup {"stock_select"}],
                           AfterLine(c))
    /\ UNCHANGED <<extraVars,
                   pageVars,
                   storeVars, sold, now, userOf, products, stockList, stockPending,
                   register, job>>

updatedStockQuantityFromCart(c) ==
    c.cart[c.line].stock_quantity - c.cart[c.line].quantity

\* currentProduct.stock_quantity - item.quantity
updatedStockQuantity(c) == c.currentProduct[1] - c.cart[c.line].quantity

\* 4. Update Stock: the write of one cart line
StockUpdate(s, ok) ==
    /\ pc[s] = "stock_update"
    /\ LET c == co[s]
              item == c.cart[c.line]
              applied == ok /\ CanUpdateProducts(userOf[s])
          IN /\ stock' = IF applied
                         THEN [stock EXCEPT ![item.id] =
                                  updatedStockQuantity(c)]
                         ELSE stock
             /\ Continue(s, IF ok THEN c
                            ELSE [c EXCEPT !.errors = @ \cup {"stock_update"}],
                         AfterLine(c))
    /\ UNCHANGED <<extraVars,
                   pageVars,
                   sales, saleItems, installments, registers, transactions,
                   purchases, sold, now, userOf, products, stockList, stockPending,
                   register, job>>

\* 5. Generate Receipt: the PDF is built and saved, or the library throws
GenerateReceipt(s, ok) ==
    /\ pc[s] = "receipt"
    /\ IF ok
       THEN /\ Continue(s, co[s], IF co[s].paymentType = "cash"
                                  THEN "register_select" ELSE "done")
            /\ UNCHANGED <<storeVars, sold>>
       ELSE CheckoutCatch(s, "receipt")
    /\ UNCHANGED <<extraVars, pageVars,
                   now, userOf, products, stockList, stockPending, register,
                   job>>

\* 6. Register in Cash Flow: the lookup of the open register
RegisterSelect(s, ok) ==
    /\ pc[s] = "register_select"
    /\ LET c == co[s]
              rows == OpenRegisters(userOf[s])
              found == IF ok THEN Single(rows) ELSE None
              c2 == [c EXCEPT !.register = found,
                              !.openAtLookup = rows # {},
                              !.errors = IF ok THEN @
                                         ELSE @ \cup {"register_select"}]
          IN Continue(s, c2, IF found # None THEN "insert_transaction"
                             ELSE "done")
    /\ UNCHANGED <<extraVars, pageVars,
                   storeVars, sold, now, userOf, products, stockList, stockPending,
                   register, job>>

\* 6. Register in Cash Flow: the insert; amount is NOT NULL
InsertSaleTransaction(s, ok) ==
    /\ pc[s] = "insert_transaction"
    /\ LET c == co[s]
              amount == saleTransactionAmount(c)
              accepted == /\ ok
                          /\ ~IsNaN(amount)
                          /\ CanInsertCashTransactions(userOf[s],
                                                       c.register[1])
          IN /\ transactions' =
                   IF accepted
                   THEN Append(transactions,
                               [register_id |-> c.register[1],
                                sale_id |-> c.sale, installment_id |-> NoId,
                                amount |-> amount[1], type |-> "sale"])
                   ELSE transactions
             /\ Continue(s, IF accepted THEN c
                            ELSE [c EXCEPT !.errors =
                                      @ \cup {"insert_transaction"}],
                         "done")
    /\ UNCHANGED <<extraVars,
                   pageVars, stock, sales, saleItems, installments, registers,
                   purchases, sold, now, userOf, products, stockList, stockPending,
                   register, job>>

\* ------------------------------------------------------- Stock page
\* Stock.fetchProducts
FetchStock(s) ==
    /\ stockPending[s]
    /\ stockList' = [stockList EXCEPT ![s] = stock]
    /\ stockPending' = [stockPending EXCEPT ![s] = FALSE]
    /\ UNCHANGED <<extraVars,
                   pageVars,
                   storeVars, sold, now, userOf, products, fetchPending, cart,
                   register, pc, co, job, result>>

\* ProductModal.handleSubmit on a product of the list: the form holds the
\* row of the list with the price typed in, and update(formData) writes the
\* whole row; onSuccess refetches the list
SaveProduct(s, p, newPrice, ok) ==
    /\ pc[s] = "idle"
    /\ p \in DOMAIN stockList[s]
    /\ IF ok /\ CanUpdateProducts(userOf[s])
       THEN /\ price' = [price EXCEPT ![p] = newPrice]
            /\ stock' = [stock EXCEPT ![p] = stockList[s][p]]
       ELSE UNCHANGED <<price, stock>>
    /\ stockPending' = [stockPending EXCEPT ![s] = IF ok THEN TRUE ELSE @]
    /\ UNCHANGED <<extraVars,
                   sales, saleItems, installments, registers, transactions,
                   purchases, sold, ledger, ledgerPending, instList,
                   instPending, now, userOf, products, fetchPending, cart,
                   stockList, register, pc, co, job, result>>

\* StockModal.handleSubmit up to its await; the button is shown to admins
StockModalSubmit(s, p, type, quantity) ==
    /\ pc[s] = "idle"
    /\ Role(userOf[s]) = "admin"
    /\ LET newQuantity == IF type = "add" THEN stockList[s][p] + quantity
                             ELSE stockList[s][p] - quantity
          IN /\ newQuantity <= MaxStock
             /\ IF newQuantity < 0
                THEN UNCHANGED <<pc, job>>
                ELSE /\ pc' = [pc EXCEPT ![s] = "modal_update"]
                     /\ job' = [job EXCEPT ![s] =
                                  [NoJob EXCEPT !.product = p,
                                                !.quantity = newQuantity]]
    /\ UNCHANGED <<extraVars,
                   pageVars,
                   storeVars, sold, now, userOf, viewVars, co, result>>

\* StockModal.handleSubmit: the update and what follows it
StockModalUpdate(s, ok) ==
    /\ pc[s] = "modal_update"
    /\ stock' = IF ok /\ CanUpdateProducts(userOf[s])
                      THEN [stock EXCEPT ![job[s].product] = job[s].quantity]
                      ELSE stock
    /\ stockPending' = [stockPending EXCEPT ![s] = IF ok THEN TRUE ELSE @]
    /\ pc' = [pc EXCEPT ![s] = "idle"]
    /\ job' = [job EXCEPT ![s] = NoJob]
    /\ UNCHANGED <<extraVars,
                   pageVars,
                   sales, saleItems, installments, registers, transactions,
                   purchases, sold, now, userOf, products, fetchPending, cart,
                   stockList, register, co, result>>

\* PurchasesView.handleSubmit: the insert of the purchase; the quantity to
\* store is computed from the product list the handler was created with
PurchaseInsert(s, p, quantity, ok) ==
    /\ pc[s] = "idle"
    /\ stockList[s][p] + quantity <= MaxStock
    /\ IF ok /\ CanInsertPurchases(userOf[s])
             THEN /\ purchases < MaxPurchases
                  /\ purchases' = purchases + 1
                  /\ pc' = [pc EXCEPT ![s] = "purchase_update"]
                  /\ job' = [job EXCEPT ![s] =
                               [NoJob EXCEPT !.product = p,
                                             !.quantity =
                                                stockList[s][p] + quantity]]
             ELSE UNCHANGED <<purchases, pc, job>>
    /\ UNCHANGED <<extraVars,
                   pageVars, stock, sales, saleItems, installments, registers,
                   transactions, sold, now, userOf, viewVars, co, result>>

\* PurchasesView.handleSubmit: the stock update and what follows it
PurchaseUpdate(s, ok) ==
    /\ pc[s] = "purchase_update"
    /\ stock' = IF ok /\ CanUpdateProducts(userOf[s])
                      THEN [stock EXCEPT ![job[s].product] = job[s].quantity]
                      ELSE stock
    /\ stockPending' = [stockPending EXCEPT ![s] = IF ok THEN TRUE ELSE @]
    /\ pc' = [pc EXCEPT ![s] = "idle"]
    /\ job' = [job EXCEPT ![s] = NoJob]
    /\ UNCHANGED <<extraVars,
                   pageVars,
                   sales, saleItems, installments, registers, transactions,
                   purchases, sold, now, userOf, products, fetchPending, cart,
                   stockList, register, co, result>>

\* ---------------------------------------------------- CashFlow page
\* fetchCurrentRegister: any error but "no rows" leaves the view as it was
FetchCurrentRegister(s, ok) ==
    /\ pc[s] = "idle"
    /\ repair[s] = NoRepair
    /\ LET found == Single(OpenRegisters(userOf[s]))
          IN IF ~ok
             THEN UNCHANGED <<register, ledger, ledgerPending>>
             ELSE IF found = None
             THEN /\ register' = [register EXCEPT ![s] = NoId]
                  /\ ledger' = [ledger EXCEPT ![s] = <<>>]
                  /\ UNCHANGED ledgerPending
             ELSE /\ register' = [register EXCEPT ![s] = found[1]]
                  /\ ledgerPending' = [ledgerPending EXCEPT ![s] = found[1]]
                  /\ UNCHANGED ledger
    /\ UNCHANGED <<extraVars,
                   storeVars, sold, price, instList, instPending, now, userOf,
                   products, fetchPending, cart, stockList, stockPending, pc,
                   co, job, result>>

\* the rows of a register, newest first
RECURSIVE Descending(_)
Descending(ids) ==
    IF ids = {} THEN <<>>
    ELSE LET m == CHOOSE i \in ids : \A j \in ids : j <= i
         IN <<m>> \o Descending(ids \ {m})

LedgerRows(regId) ==
    LET ids == Descending({i \in 1..Len(transactions) :
                              transactions[i].register_id = regId})
    IN [k \in 1..Len(ids) |->
           [id |-> ids[k], type |-> transactions[ids[k]].type,
            amount |-> transactions[ids[k]].amount,
            sale_id |-> transactions[ids[k]].sale_id]]

\* transactions.filter(t => t.amount === 0 && t.type === 'sale' && t.sale_id)
zeroTransactions(list) ==
    SelectSeq(list, LAMBDA t :
                       t.amount = 0 /\ t.type = "sale" /\ t.sale_id # NoId)

\* fetchTransactions: an error leaves the list as it was; a new list that
\* holds zero transactions starts fixZeroTransactions on them
FetchTransactions(s, ok) ==
    /\ ledgerPending[s] # NoId
    /\ repair[s] = NoRepair
    /\ ledger' = [ledger EXCEPT ![s] =
                     IF ok THEN LedgerRows(ledgerPending[s]) ELSE @]
    /\ ledgerPending' = [ledgerPending EXCEPT ![s] = NoId]
    /\ repair' = [repair EXCEPT ![s] =
                     IF ok /\ zeroTransactions(LedgerRows(ledgerPending[s]))
                                 # <<>>
                     THEN [NoRepair EXCEPT
                             !.items = zeroTransactions(
                                          LedgerRows(ledgerPending[s])),
                             !.reg = register[s]]
                     ELSE @]
    /\ UNCHANGED <<filters, clientGroups, timeZone,
                   storeVars, sold, price, instList, instPending, now, userOf,
                   viewVars, pc, co, job, result>>

CanUpdateCashTransactions(u) == IsAdmin(u)

\* fixZeroTransactions goes on to its next item, or ends: when it has
\* updated and the view had a register, the list is fetched again
RepairNext(s, updated) ==
    IF Len(repair[s].items) > 1
    THEN /\ repair' = [repair EXCEPT ![s] =
                          [@ EXCEPT !.items = Tail(@), !.found = None,
                                    !.updated = updated]]
         /\ UNCHANGED ledgerPending
    ELSE /\ repair' = [repair EXCEPT ![s] = NoRepair]
         /\ ledgerPending' =
               [ledgerPending EXCEPT ![s] =
                   IF updated /\ repair[s].reg # NoId THEN repair[s].reg
                   ELSE @]

\* fixZeroTransactions: the lookup of the sale of the item
RepairSelect(s, ok) ==
    /\ repair[s].items # <<>>
    /\ repair[s].found = None
    /\ LET t == Head(repair[s].items)
       IN IF ok /\ t.sale_id \in 1..Len(sales)
          THEN /\ repair' = [repair EXCEPT ![s].found =
                                Some(sales[t.sale_id].total_amount)]
               /\ UNCHANGED ledgerPending
          ELSE RepairNext(s, repair[s].updated)
    /\ UNCHANGED <<filters, clientGroups, timeZone, storeVars, sold, price,
                   ledger, instList, instPending, now, userOf, viewVars, pc,
                   co, job, result>>

fixedTransactionUnlinked(t, totalAmount) ==
    [t EXCEPT !.amount = totalAmount, !.sale_id = NoId]

\* update({ amount: sale.total_amount })
fixedTransaction(t, totalAmount) == [t EXCEPT !.amount = totalAmount]

\* fixZeroTransactions: the update of the item, whose result is not read
RepairUpdate(s, ok) ==
    /\ repair[s].items # <<>>
    /\ repair[s].found # None
    /\ LET t == Head(repair[s].items)
       IN transactions' =
             IF ok /\ CanUpdateCashTransactions(userOf[s])
             THEN [transactions EXCEPT ![t.id] =
                      fixedTransaction(@, repair[s].found[1])]
             ELSE transactions
    /\ RepairNext(s, TRUE)
    /\ UNCHANGED <<filters, clientGroups, timeZone, stock, sales, saleItems,
                   installments, registers, purchases, sold, price, ledger,
                   instList, instPending, now, userOf, viewVars, pc, co, job,
                   result>>

RECURSIVE calculateBalanceAddsAll(_)
RECURSIVE calculateBalance(_)
calculateBalanceAddsAll(list) ==
    IF list = <<>> THEN 0
    ELSE list[Len(list)].amount
            + calculateBalanceAddsAll(SubSeq(list, 1, Len(list) - 1))

\* transactions.reduce: a withdrawal is subtracted, anything else added
calculateBalance(list) ==
    IF list = <<>> THEN 0
    ELSE LET curr == list[Len(list)]
             acc == calculateBalance(SubSeq(list, 1, Len(list) - 1))
         IN IF curr.type = "withdrawal" THEN acc - curr.amount
            ELSE acc + curr.amount

\* handleOpenRegister: the insert of the register; the form is shown when
\* the view has no register
OpenRegisterInsert(s, initialBalance, ok) ==
    /\ pc[s] = "idle"
    /\ register[s] = NoId
    /\ LET row == [user_id |-> userOf[s], status |-> "open",
                      initial_balance |-> initialBalance, final_balance |-> None]
          IN IF ok /\ CanInsertCashRegisters(userOf[s], row)
             THEN /\ Len(registers) < MaxRegisters
                  /\ registers' = Append(registers, row)
                  /\ pc' = [pc EXCEPT ![s] = "open_transaction"]
                  /\ job' = [job EXCEPT ![s] =
                               [NoJob EXCEPT !.reg = Len(registers) + 1,
                                             !.balance = initialBalance]]
             ELSE UNCHANGED <<registers, pc, job>>
    /\ UNCHANGED <<extraVars,
                   pageVars,
                   stock, sales, saleItems, installments, transactions,
                   purchases, sold, now, userOf, viewVars, co, result>>

\* handleOpenRegister: the opening transaction, then setRegister
OpenRegisterTransaction(s, ok) ==
    /\ pc[s] = "open_transaction"
    /\ transactions' =
             IF ok /\ CanInsertCashTransactions(userOf[s], job[s].reg)
             THEN Append(transactions,
                         [register_id |-> job[s].reg, sale_id |-> NoId,
                          installment_id |-> NoId, amount |-> job[s].balance,
                          type |-> "opening"])
             ELSE transactions
    /\ register' = [register EXCEPT ![s] = job[s].reg]
    /\ ledgerPending' = [ledgerPending EXCEPT ![s] = job[s].reg]
    /\ pc' = [pc EXCEPT ![s] = "idle"]
    /\ job' = [job EXCEPT ![s] = NoJob]
    /\ UNCHANGED <<extraVars,
                   stock, sales, saleItems, installments, registers,
                   purchases, sold, price, ledger, instList, instPending, now,
                   userOf, products, fetchPending, cart, stockList,
                   stockPending, co, result>>

CanUpdateCashRegisters(u, regId) ==
    IsAdmin(u) \/ registers[regId].user_id = u

closedRegisterStaysOpen(row, balance) ==
    [row EXCEPT !.final_balance = Some(balance)]

\* update({status: 'closed', final_balance: calculateBalance()})
closedRegister(row, balance) ==
    [row EXCEPT !.status = "closed", !.final_balance = Some(balance)]

\* handleCloseRegister: the update of the register; the button is shown when
\* the view has a register, and the operator confirms
CloseRegisterUpdate(s, ok) ==
    /\ pc[s] = "idle"
    /\ register[s] # NoId
    /\ LET r == register[s]
           balance == calculateBalance(ledger[s])
       IN /\ registers' =
                IF ok /\ CanUpdateCashRegisters(userOf[s], r)
                THEN [registers EXCEPT ![r] = closedRegister(@, balance)]
                ELSE registers
          /\ IF ok
             THEN /\ pc' = [pc EXCEPT ![s] = "close_transaction"]
                  /\ job' = [job EXCEPT ![s] =
                               [NoJob EXCEPT !.reg = r, !.balance = balance]]
             ELSE UNCHANGED <<pc, job>>
    /\ UNCHANGED <<extraVars,
                   stock, sales, saleItems, installments, transactions,
                   purchases, sold, pageVars, now, userOf, viewVars, co,
                   result>>

\* handleCloseRegister: the closing transaction, then the view is cleared
CloseRegisterTransaction(s, ok) ==
    /\ pc[s] = "close_transaction"
    /\ transactions' =
             IF ok /\ CanInsertCashTransactions(userOf[s], job[s].reg)
             THEN Append(transactions,
                         [register_id |-> job[s].reg, sale_id |-> NoId,
                          installment_id |-> NoId, amount |-> job[s].balance,
                          type |-> "closing"])
             ELSE transactions
    /\ register' = [register EXCEPT ![s] = NoId]
    /\ ledger' = [ledger EXCEPT ![s] = <<>>]
    /\ pc' = [pc EXCEPT ![s] = "idle"]
    /\ job' = [job EXCEPT ![s] = NoJob]
    /\ UNCHANGED <<extraVars,
                   stock, sales, saleItems, installments, registers,
                   purchases, sold, price, ledgerPending, instList,
                   instPending, now, userOf, products, fetchPending, cart,
                   stockList, stockPending, co, result>>

\* ------------------------------------------------ Installments page
\* installments.id
InstallmentId(r) == r.sale_id * 16 + r.installment_number

CanUpdateInstallments(u) == IsAdmin(u)

\* the stored cash transactions of type 'installment_payment'
InstallmentPayments ==
    {i \in 1..Len(transactions) :
        transactions[i].type = "installment_payment"}

\* clients.name, a string of characters
ClientName(c) ==
    IF c = "c2" THEN <<"b", "i", "a">> ELSE <<"A", "n", "a">>

\* String.prototype.toLowerCase on the letters in use
LowerChar(ch) ==
    IF ch = "A" THEN "a" ELSE IF ch = "B" THEN "b"
    ELSE IF ch = "I" THEN "i" ELSE IF ch = "N" THEN "n" ELSE ch

toLowerCase(str) == [i \in 1..Len(str) |-> LowerChar(str[i])]

\* String.prototype.includes
includes(str, term) ==
    \E i \in 0..(Len(str) - Len(term)) :
       SubSeq(str, i + 1, i + Len(term)) = term

\* the place of a letter in the alphabet, capitals after small letters
CharRank(ch) ==
    IF LowerChar(ch) = "a" THEN 1 ELSE IF LowerChar(ch) = "b" THEN 2
    ELSE IF LowerChar(ch) = "i" THEN 9 ELSE IF LowerChar(ch) = "n" THEN 14
    ELSE 27

\* String.prototype.localeCompare: letters first, then their case
RECURSIVE comparePrimary(_, _)
comparePrimary(a, b) ==
    IF a = <<>> /\ b = <<>> THEN 0
    ELSE IF a = <<>> THEN 0 - 1
    ELSE IF b = <<>> THEN 1
    ELSE IF CharRank(Head(a)) < CharRank(Head(b)) THEN 0 - 1
    ELSE IF CharRank(Head(a)) > CharRank(Head(b)) THEN 1
    ELSE comparePrimary(Tail(a), Tail(b))

RECURSIVE compareCase(_, _)
compareCase(a, b) ==
    IF a = <<>> \/ b = <<>> THEN 0
    ELSE IF Head(a) = Head(b) THEN compareCase(Tail(a), Tail(b))
    ELSE IF Head(a) = LowerChar(Head(a)) THEN 0 - 1 ELSE 1

localeCompare(a, b) ==
    IF comparePrimary(a, b) # 0 THEN comparePrimary(a, b)
    ELSE compareCase(a, b)

\* inst.sale.client.name
clientNameOf(inst) == ClientName(sales[inst.sale_id].client_id)

\* format(new Date(due_date), 'yyyy-MM-dd'): the date is read as midnight
\* UTC and written as a local day
localDay(dueDate, zone) == IF zone < 0 THEN dueDate - 1 ELSE dueDate

\* the filter logic of groupInstallments
matchesFilters(inst, f, today, zone) ==
    /\ includes(toLowerCase(clientNameOf(inst)), toLowerCase(f.searchTerm))
    /\ f.statusFilter = "all" \/ inst.status = f.statusFilter
    /\ f.viewMode = "today" => localDay(inst.due_date, zone) = today

\* order('due_date')
RECURSIVE orderByDueDate(_)
orderByDueDate(rows) ==
    IF rows = {} THEN <<>>
    ELSE LET r == CHOOSE x \in rows : \A y \in rows : x.due_date <= y.due_date
         IN <<r>> \o orderByDueDate(rows \ {r})

QuotAdd(a, b) == Quot(a.num * b.den + b.num * a.den, a.den * b.den)

\* groups[clientId].installments.push(inst) and the two totals
groupWith(group, inst) ==
    [group EXCEPT
        !.installments = Append(@, inst),
        !.totalPending = IF inst.status = "pending"
                         THEN QuotAdd(@, inst.amount) ELSE @,
        !.totalOverdue = IF inst.status = "overdue"
                         THEN QuotAdd(@, inst.amount) ELSE @]

\* installments.forEach: the groups object, keyed by client name
RECURSIVE groupsObject(_, _, _, _)
groupsObject(list, f, today, zone) ==
    IF list = <<>> THEN <<>>
    ELSE LET groups == groupsObject(SubSeq(list, 1, Len(list) - 1), f,
                                    today, zone)
             inst == list[Len(list)]
             name == clientNameOf(inst)
             at == {k \in 1..Len(groups) : groups[k].clientId = name}
         IN IF ~matchesFilters(inst, f, today, zone) THEN groups
            ELSE IF at = {}
            THEN Append(groups,
                        groupWith([clientId |-> name, clientName |-> name,
                                   installments |-> <<>>,
                                   totalPending |-> Quot(0, 1),
                                   totalOverdue |-> Quot(0, 1)], inst))
            ELSE [k \in 1..Len(groups) |->
                    IF k \in at THEN groupWith(groups[k], inst)
                    ELSE groups[k]]

\* Object.values(groups).sort((a, b) => a.clientName.localeCompare(b.clientName))
RECURSIVE sortByClientName(_)
sortByClientName(groups) ==
    IF groups = <<>> THEN <<>>
    ELSE LET m == CHOOSE k \in 1..Len(groups) :
                     \A j \in 1..Len(groups) :
                        \/ localeCompare(groups[k].clientName,
                                         groups[j].clientName) < 0
                        \/ /\ localeCompare(groups[k].clientName,
                                            groups[j].clientName) = 0
                           /\ k <= j
         IN <<groups[m]>> \o
               sortByClientName([k \in 1..(Len(groups) - 1) |->
                                    IF k < m THEN groups[k]
                                    ELSE groups[k + 1]])

groupInstallments(rows, f, today, zone) ==
    sortByClientName(groupsObject(orderByDueDate(rows), f, today, zone))

\* fetchInstallments: an error leaves the list as it was; a new list is
\* grouped again
FetchInstallments(s, ok) ==
    /\ instPending[s]
    /\ instList' = [instList EXCEPT ![s] = IF ok THEN installments ELSE @]
    /\ instPending' = [instPending EXCEPT ![s] = FALSE]
    /\ clientGroups' =
          [clientGroups EXCEPT ![s] =
              IF ok THEN groupInstallments(installments, filters[s], now,
                                           timeZone[s])
              ELSE @]
    /\ UNCHANGED <<repair, filters, timeZone,
                   storeVars, sold, price, ledger, ledgerPending, now,
                   userOf, viewVars, pc, co, job, result>>

\* the search box, the status select and the view buttons: the list is
\* grouped again with the new filters
SetFilters(s, f) ==
    /\ filters' = [filters EXCEPT ![s] = f]
    /\ clientGroups' =
          [clientGroups EXCEPT ![s] =
              groupInstallments(instList[s], f, now, timeZone[s])]
    /\ UNCHANGED <<repair, timeZone, storeVars, sold, pageVars, now, userOf,
                   viewVars, pc, co, job, result>>

paidInstallmentToggled(r) ==
    [r EXCEPT !.status = IF @ = "paid" THEN "pending" ELSE "paid"]

\* update({ status: 'paid' })
paidInstallment(r) == [r EXCEPT !.status = "paid"]

\* the end of handleConfirmPayment: the modal is closed, the list refetched
ConfirmPaymentEnd(s) ==
    /\ pc' = [pc EXCEPT ![s] = "idle"]
    /\ job' = [job EXCEPT ![s] = NoJob]
    /\ instPending' = [instPending EXCEPT ![s] = TRUE]

\* openPaymentModal on a row of the list that is not shown as paid, then
\* handleConfirmPayment: the update of the installment
ConfirmPaymentUpdate(s, inst, ok) ==
    /\ pc[s] = "idle"
    /\ Cardinality(InstallmentPayments) < MaxPayments
    /\ inst \in instList[s]
    /\ inst.status # "paid"
    /\ installments' =
          IF ok /\ CanUpdateInstallments(userOf[s])
          THEN {IF InstallmentId(r) = InstallmentId(inst)
                THEN paidInstallment(r) ELSE r : r \in installments}
          ELSE installments
    /\ IF ok
       THEN /\ pc' = [pc EXCEPT ![s] = "payment_register"]
            /\ job' = [job EXCEPT ![s] =
                         [NoJob EXCEPT !.installment = InstallmentId(inst),
                                       !.amount = inst.amount]]
       ELSE UNCHANGED <<pc, job>>
    /\ UNCHANGED <<extraVars,
                   stock, sales, saleItems, registers, transactions,
                   purchases, sold, pageVars, now, userOf, viewVars, co,
                   result>>

\* handleConfirmPayment: the lookup of the open register
ConfirmPaymentRegister(s, ok) ==
    /\ pc[s] = "payment_register"
    /\ LET found == IF ok THEN Single(OpenRegisters(userOf[s])) ELSE None
       IN IF found # None
          THEN /\ pc' = [pc EXCEPT ![s] = "payment_transaction"]
               /\ job' = [job EXCEPT ![s].reg = found[1]]
               /\ UNCHANGED instPending
          ELSE ConfirmPaymentEnd(s)
    /\ UNCHANGED <<extraVars,
                   storeVars, sold, price, ledger, ledgerPending, instList,
                   now, userOf, viewVars, co, result>>

\* handleConfirmPayment: the insert of the cash transaction
ConfirmPaymentTransaction(s, ok) ==
    /\ pc[s] = "payment_transaction"
    /\ transactions' =
          IF ok /\ CanInsertCashTransactions(userOf[s], job[s].reg)
          THEN Append(transactions,
                      [register_id |-> job[s].reg, sale_id |-> NoId,
                       installment_id |-> job[s].installment,
                       amount |-> job[s].amount,
                       type |-> "installment_payment"])
          ELSE transactions
    /\ ConfirmPaymentEnd(s)
    /\ UNCHANGED <<extraVars,
                   stock, sales, saleItems, installments, registers,
                   purchases, sold, price, ledger, ledgerPending, instList,
                   now, userOf, viewVars, co, result>>

\* the store after an operator has opened a register
OpenedRegister(u, initialBalance) ==
    [registers |-> <<[user_id |-> u, status |-> "open",
                      initial_balance |-> initialBalance,
                      final_balance |-> None]>>,
     transactions |-> <<[register_id |-> 1, sale_id |-> NoId,
                         installment_id |-> NoId, amount |-> initialBalance,
                         type |-> "opening"]>>]

\* ------------------------------------------------- specifications
\* One operator at the counter selling one product, with or without an
\* open register; every store call of the checkout may fail.
Operator == "s1"

InitOperator ==
    /\ stock = [p \in {"pA"} |-> MaxStock]
    /\ sales = <<>>
    /\ saleItems = {}
    /\ installments = {}
    /\ \/ registers = <<>> /\ transactions = <<>>
       \/ \E u \in Users :
             /\ registers = OpenedRegister(u, 100).registers
             /\ transactions = OpenedRegister(u, 100).transactions
    /\ purchases = 0
    /\ sold = [s \in Sessions |-> 0]
    /\ price = [p \in Products |-> Price(p)]
    /\ now = 1
    /\ userOf \in [Sessions -> Users]
    /\ userOf["s2"] = "ua"
    /\ products = [s \in Sessions |-> ProductList(stock)]
    /\ fetchPending = [s \in Sessions |-> FALSE]
    /\ cart = [s \in Sessions |-> <<>>]
    /\ stockList = [s \in Sessions |-> stock]
    /\ stockPending = [s \in Sessions |-> FALSE]
    /\ register = [s \in Sessions |->
                     IF OpenRegisters(userOf[s]) = {} THEN NoId ELSE 1]
    /\ ledger = [s \in Sessions |-> <<>>]
    /\ ledgerPending = [s \in Sessions |-> NoId]
    /\ instList = [s \in Sessions |-> {}]
    /\ instPending = [s \in Sessions |-> FALSE]
    /\ repair = [s \in Sessions |-> NoRepair]
    /\ filters = [s \in Sessions |-> NoFilters]
    /\ clientGroups = [s \in Sessions |-> <<>>]
    /\ timeZone = [s \in Sessions |-> 0]
    /\ pc = [s \in Sessions |-> "idle"]
    /\ co = [s \in Sessions |-> NoCheckout]
    /\ job = [s \in Sessions |-> NoJob]
    /\ result = [s \in Sessions |-> NoResult]

\* the payment forms the operator submits
OperatorForms ==
    PaymentForms(Clients \cup {NoClient}, PaymentTypes, {"pix", "money"},
                 AmountPaidChoices)

Next ==
    \/ FetchProducts(Operator)
    \/ AddToCart(Operator)
    \/ RemoveFromCart(Operator)
    \/ UpdateQuantity(Operator)
    \/ \E form \in OperatorForms : CheckoutBegin(Operator, form)
    \/ \E ok \in BOOLEAN : InsertSale(Operator, ok)
    \/ \E ok \in BOOLEAN : InsertSaleItems(Operator, ok)
    \/ \E ok \in BOOLEAN : InsertInstallments(Operator, ok)
    \/ \E ok \in BOOLEAN : StockSelect(Operator, ok)
    \/ \E ok \in BOOLEAN : StockUpdate(Operator, ok)
    \/ \E ok \in BOOLEAN : GenerateReceipt(Operator, ok)
    \/ \E ok \in BOOLEAN : RegisterSelect(Operator, ok)
    \/ \E ok \in BOOLEAN : InsertSaleTransaction(Operator, ok)

Spec == InitOperator /\ [][Next]_vars

\* Two sessions of the administrator on one product: the operator sells,
\* the keeper adjusts the stock and registers purchases; the store answers
\* every call.
Keeper == "s2"

InitStock ==
    /\ Init
    /\ DOMAIN stock = {"pA"}
    /\ userOf = [s \in Sessions |-> "ua"]

NextStock ==
    \/ FetchProducts(Operator)
    \/ AddToCart(Operator)
    \/ RemoveFromCart(Operator)
    \/ UpdateQuantity(Operator)
    \/ \E form \in PaymentForms(Clients, {"cash"}, {"pix"}, {Num(0)}) :
          CheckoutBegin(Operator, form)
    \/ InsertSale(Operator, TRUE)
    \/ InsertSaleItems(Operator, TRUE)
    \/ StockSelect(Operator, TRUE)
    \/ StockUpdate(Operator, TRUE)
    \/ GenerateReceipt(Operator, TRUE)
    \/ RegisterSelect(Operator, TRUE)
    \/ FetchStock(Keeper)
    \/ \E p \in DOMAIN stock, type \in {"add", "remove"},
          quantity \in 1..MaxStock :
             StockModalSubmit(Keeper, p, type, quantity)
    \/ StockModalUpdate(Keeper, TRUE)
    \/ \E p \in DOMAIN stock, quantity \in 1..MaxStock :
          PurchaseInsert(Keeper, p, quantity, TRUE)
    \/ PurchaseUpdate(Keeper, TRUE)

SpecStock == InitStock /\ [][NextStock]_vars

\* Two sessions at the cash register.
InitRegisters ==
    /\ Init
    /\ DOMAIN stock = {"pA"}

NextRegisters ==
    \/ \E s \in Sessions, ok \in BOOLEAN : FetchCurrentRegister(s, ok)
    \/ \E s \in Sessions, ok \in BOOLEAN : FetchTransactions(s, ok)
    \/ \E s \in Sessions, b \in InitialBalanceChoices, ok \in BOOLEAN :
          OpenRegisterInsert(s, b, ok)
    \/ \E s \in Sessions, ok \in BOOLEAN : OpenRegisterTransaction(s, ok)

SpecRegisters == InitRegisters /\ [][NextRegisters]_vars

\* An open register whose owner looks at the CashFlow page in two sessions
\* and closes it.  Besides its opening the register holds up to MaxEntries
\* entries: the sale of one unit of pA, and withdrawals and deposits, which
\* are entered outside these pages.
LedgerEntryKinds ==
    {[type |-> "sale", amount |-> Price("pA"), sale_id |-> 1],
     [type |-> "withdrawal", amount |-> 20, sale_id |-> NoId],
     [type |-> "deposit", amount |-> 5, sale_id |-> NoId]}

LedgerEntries ==
    {l \in UNION {[1..n -> LedgerEntryKinds] : n \in 0..MaxEntries} :
        Cardinality({i \in DOMAIN l : l[i].type = "sale"}) <= 1}

InitLedger ==
    /\ \E u \in Users, b \in InitialBalanceChoices, l \in LedgerEntries :
          LET sold1 == \E i \in DOMAIN l : l[i].type = "sale"
          IN /\ userOf = [s \in Sessions |-> u]
             /\ registers = OpenedRegister(u, b).registers
             /\ transactions = OpenedRegister(u, b).transactions \o
                   [i \in DOMAIN l |->
                      [register_id |-> 1, sale_id |-> l[i].sale_id,
                       installment_id |-> NoId, amount |-> l[i].amount,
                       type |-> l[i].type]]
             /\ sales = IF sold1
                        THEN <<[client_id |-> "c1", user_id |-> u,
                                total_amount |-> Price("pA"),
                                payment_method |->
                                    [method |-> "pix", times |-> 0],
                                created_at |-> 1]>>
                        ELSE <<>>
             /\ saleItems = IF sold1
                            THEN {[sale_id |-> 1, product_id |-> "pA",
                                   quantity |-> 1,
                                   unit_price |-> Price("pA")]}
                            ELSE {}
             /\ stock = [p \in {"pA"} |->
                           IF sold1 /\ IsAdmin(u) THEN MaxStock - 1
                           ELSE MaxStock]
    /\ installments = {}
    /\ purchases = 0
    /\ sold = [s \in Sessions |-> 0]
    /\ price = [p \in Products |-> Price(p)]
    /\ now = 1
    /\ products = [s \in Sessions |-> ProductList(stock)]
    /\ fetchPending = [s \in Sessions |-> FALSE]
    /\ cart = [s \in Sessions |-> <<>>]
    /\ stockList = [s \in Sessions |-> stock]
    /\ stockPending = [s \in Sessions |-> FALSE]
    /\ register = [s \in Sessions |-> 1]
    /\ ledger = [s \in Sessions |-> <<>>]
    /\ ledgerPending = [s \in Sessions |-> 1]
    /\ instList = [s \in Sessions |-> {}]
    /\ instPending = [s \in Sessions |-> FALSE]
    /\ repair = [s \in Sessions |-> NoRepair]
    /\ filters = [s \in Sessions |-> NoFilters]
    /\ clientGroups = [s \in Sessions |-> <<>>]
    /\ timeZone = [s \in Sessions |-> 0]
    /\ pc = [s \in Sessions |-> "idle"]
    /\ co = [s \in Sessions |-> NoCheckout]
    /\ job = [s \in Sessions |-> NoJob]
    /\ result = [s \in Sessions |-> NoResult]

NextLedger ==
    \/ \E s \in Sessions, ok \in BOOLEAN : FetchCurrentRegister(s, ok)
    \/ \E s \in Sessions, ok \in BOOLEAN : FetchTransactions(s, ok)
    \/ \E s \in Sessions, ok \in BOOLEAN : CloseRegisterUpdate(s, ok)
    \/ \E s \in Sessions, ok \in BOOLEAN : CloseRegisterTransaction(s, ok)

SpecLedger == InitLedger /\ [][NextLedger]_vars

\* Two sessions of the administrator sell the same product at the same
\* time, each filling its cart by adding and checking out once; the store
\* answers every call.
NextRace ==
    \/ \E s \in Sessions : FetchProducts(s)
    \/ \E s \in Sessions : AddToCart(s)
    \/ \E s \in Sessions :
          \E form \in PaymentForms(Clients, {"cash"}, {"pix"}, {Num(0)}) :
             sold[s] = 0 /\ CheckoutBegin(s, form)
    \/ \E s \in Sessions : InsertSale(s, TRUE)
    \/ \E s \in Sessions : InsertSaleItems(s, TRUE)
    \/ \E s \in Sessions : StockSelect(s, TRUE)
    \/ \E s \in Sessions : StockUpdate(s, TRUE)
    \/ \E s \in Sessions : GenerateReceipt(s, TRUE)
    \/ \E s \in Sessions : RegisterSelect(s, TRUE)

SpecRace == InitStock /\ [][NextRace]_vars

\* An open register whose owner looks at the CashFlow page in two sessions.
\* Two sales are stored, one unit of pA and one unit of pB, whose price is 0;
\* besides its opening the register holds up to MaxEntries entries: deposits
\* and, for each sale at most once, a sale transaction of amount 0.  The
\* first session may close the register.
RepairEntryKinds ==
    {[type |-> "sale", amount |-> 0, sale_id |-> 1],
     [type |-> "sale", amount |-> 0, sale_id |-> 2],
     [type |-> "deposit", amount |-> 5, sale_id |-> NoId]}

RepairEntries ==
    {l \in UNION {[1..n -> RepairEntryKinds] : n \in 0..MaxEntries} :
        \A i, j \in DOMAIN l :
           (l[i].sale_id # NoId /\ l[i].sale_id = l[j].sale_id) => i = j}

InitRepair ==
    /\ \E u \in Users, l \in RepairEntries :
          /\ userOf = [s \in Sessions |-> u]
          /\ registers = OpenedRegister(u, 100).registers
          /\ transactions = OpenedRegister(u, 100).transactions \o
                [i \in DOMAIN l |->
                   [register_id |-> 1, sale_id |-> l[i].sale_id,
                    installment_id |-> NoId, amount |-> l[i].amount,
                    type |-> l[i].type]]
    /\ price = [p \in Products |-> IF p = "pB" THEN 0 ELSE Price(p)]
    /\ sales = [i \in 1..2 |->
                  [client_id |-> "c1", user_id |-> "ua",
                   total_amount |-> IF i = 1 THEN price["pA"] ELSE price["pB"],
                   payment_method |-> [method |-> "pix", times |-> 0],
                   created_at |-> 1]]
    /\ saleItems = {[sale_id |-> 1, product_id |-> "pA", quantity |-> 1,
                     unit_price |-> price["pA"]],
                    [sale_id |-> 2, product_id |-> "pB", quantity |-> 1,
                     unit_price |-> price["pB"]]}
    /\ stock = [p \in Products |-> MaxStock - 1]
    /\ installments = {}
    /\ purchases = 0
    /\ sold = [s \in Sessions |-> 0]
    /\ now = 1
    /\ products = [s \in Sessions |-> ProductList(stock)]
    /\ fetchPending = [s \in Sessions |-> FALSE]
    /\ cart = [s \in Sessions |-> <<>>]
    /\ stockList = [s \in Sessions |-> stock]
    /\ stockPending = [s \in Sessions |-> FALSE]
    /\ register = [s \in Sessions |-> 1]
    /\ ledger = [s \in Sessions |-> <<>>]
    /\ ledgerPending = [s \in Sessions |-> 1]
    /\ instList = [s \in Sessions |-> {}]
    /\ instPending = [s \in Sessions |-> FALSE]
    /\ repair = [s \in Sessions |-> NoRepair]
    /\ filters = [s \in Sessions |-> NoFilters]
    /\ clientGroups = [s \in Sessions |-> <<>>]
    /\ timeZone = [s \in Sessions |-> 0]
    /\ pc = [s \in Sessions |-> "idle"]
    /\ co = [s \in Sessions |-> NoCheckout]
    /\ job = [s \in Sessions |-> NoJob]
    /\ result = [s \in Sessions |-> NoResult]

NextRepair ==
    \/ \E s \in Sessions, ok \in BOOLEAN : FetchCurrentRegister(s, ok)
    \/ \E s \in Sessions, ok \in BOOLEAN : FetchTransactions(s, ok)
    \/ \E s \in Sessions, ok \in BOOLEAN : RepairSelect(s, ok)
    \/ \E s \in Sessions, ok \in BOOLEAN : RepairUpdate(s, ok)
    \/ CloseRegisterUpdate(Operator, TRUE)
    \/ CloseRegisterTransaction(Operator, TRUE)

SpecRepair == InitRepair /\ [][NextRepair]_vars

\* The same pages left alone: the store answers every call, and every call
\* in flight is answered.
NextRepairAnswered ==
    \/ \E s \in Sessions : FetchTransactions(s, TRUE)
    \/ \E s \in Sessions : RepairSelect(s, TRUE)
    \/ \E s \in Sessions : RepairUpdate(s, TRUE)

SpecRepairAnswered ==
    InitRepair /\ [][NextRepairAnswered]_vars /\ WF_vars(NextRepairAnswered)

\* The Installments page in two sessions.  The administrator has sold one
\* unit of pA in two installments, the first of them pending or overdue;
\* the user of the first session has an open register or none.
InitInstallments ==
    /\ userOf \in [Sessions -> Users]
    /\ stock = [p \in {"pA"} |-> MaxStock - 1]
    /\ sales = <<[client_id |-> "c1", user_id |-> "ua",
                  total_amount |-> Price("pA"),
                  payment_method |-> [method |-> "credit_card", times |-> 2],
                  created_at |-> 1]>>
    /\ saleItems = {[sale_id |-> 1, product_id |-> "pA", quantity |-> 1,
                     unit_price |-> Price("pA")]}
    /\ \E first \in {"pending", "overdue"} :
          installments =
             {IF r.installment_number = 1 THEN [r EXCEPT !.status = first]
              ELSE r :
                 r \in installmentData(
                          [NoCheckout EXCEPT !.total = Price("pA"),
                                             !.installments = 2], 1, 1)}
    /\ \/ registers = <<>> /\ transactions = <<>>
       \/ /\ registers = OpenedRegister(userOf[Operator], 100).registers
          /\ transactions =
                OpenedRegister(userOf[Operator], 100).transactions
    /\ purchases = 0
    /\ sold = [s \in Sessions |-> 0]
    /\ price = [p \in Products |-> Price(p)]
    /\ now = 1
    /\ products = [s \in Sessions |-> ProductList(stock)]
    /\ fetchPending = [s \in Sessions |-> FALSE]
    /\ cart = [s \in Sessions |-> <<>>]
    /\ stockList = [s \in Sessions |-> stock]
    /\ stockPending = [s \in Sessions |-> FALSE]
    /\ register = [s \in Sessions |-> NoId]
    /\ ledger = [s \in Sessions |-> <<>>]
    /\ ledgerPending = [s \in Sessions |-> NoId]
    /\ instList = [s \in Sessions |-> {}]
    /\ instPending = [s \in Sessions |-> TRUE]
    /\ repair = [s \in Sessions |-> NoRepair]
    /\ filters = [s \in Sessions |-> NoFilters]
    /\ clientGroups = [s \in Sessions |-> <<>>]
    /\ timeZone = [s \in Sessions |-> 0]
    /\ pc = [s \in Sessions |-> "idle"]
    /\ co = [s \in Sessions |-> NoCheckout]
    /\ job = [s \in Sessions |-> NoJob]
    /\ result = [s \in Sessions |-> NoResult]

NextInstallments ==
    \/ \E s \in Sessions, ok \in BOOLEAN : FetchInstallments(s, ok)
    \/ \E s \in Sessions, ok \in BOOLEAN :
          \E inst \in instList[s] : ConfirmPaymentUpdate(s, inst, ok)
    \/ \E s \in Sessions, ok \in BOOLEAN : ConfirmPaymentRegister(s, ok)
    \/ \E s \in Sessions, ok \in BOOLEAN : ConfirmPaymentTransaction(s, ok)

SpecInstallments == InitInstallments /\ [][NextInstallments]_vars

\* The operator sells one product while the administrator, in the other
\* session, changes its price; the store answers every call of the checkout.
NextPrices ==
    \/ FetchProducts(Operator)
    \/ AddToCart(Operator)
    \/ RemoveFromCart(Operator)
    \/ UpdateQuantity(Operator)
    \/ \E form \in PaymentForms(Clients, {"cash"}, {"pix"}, {Num(0)}) :
          CheckoutBegin(Operator, form)
    \/ InsertSale(Operator, TRUE)
    \/ InsertSaleItems(Operator, TRUE)
    \/ StockSelect(Operator, TRUE)
    \/ StockUpdate(Operator, TRUE)
    \/ GenerateReceipt(Operator, TRUE)
    \/ RegisterSelect(Operator, TRUE)
    \/ FetchStock(Keeper)
    \/ \E p \in DOMAIN stock, ok \in BOOLEAN :
          \E newPrice \in PriceChoices(p) :
             SaveProduct(Keeper, p, newPrice, ok)

SpecPrices == InitOperator /\ [][NextPrices]_vars

\* The carts of two Sales pages over a catalogue whose stock quantities are
\* drawn from 0..MaxStock; only the cart is operated.
InitCart ==
    /\ stock \in [Products -> 0..MaxStock]
    /\ sales = <<>>
    /\ saleItems = {}
    /\ installments = {}
    /\ registers = <<>>
    /\ transactions = <<>>
    /\ purchases = 0
    /\ sold = [s \in Sessions |-> 0]
    /\ price = [p \in Products |-> Price(p)]
    /\ now = 1
    /\ userOf = [s \in Sessions |-> "uu"]
    /\ products = [s \in Sessions |-> ProductList(stock)]
    /\ fetchPending = [s \in Sessions |-> FALSE]
    /\ cart = [s \in Sessions |-> <<>>]
    /\ stockList = [s \in Sessions |-> stock]
    /\ stockPending = [s \in Sessions |-> FALSE]
    /\ register = [s \in Sessions |-> NoId]
    /\ ledger = [s \in Sessions |-> <<>>]
    /\ ledgerPending = [s \in Sessions |-> NoId]
    /\ instList = [s \in Sessions |-> {}]
    /\ instPending = [s \in Sessions |-> FALSE]
    /\ repair = [s \in Sessions |-> NoRepair]
    /\ filters = [s \in Sessions |-> NoFilters]
    /\ clientGroups = [s \in Sessions |-> <<>>]
    /\ timeZone = [s \in Sessions |-> 0]
    /\ pc = [s \in Sessions |-> "idle"]
    /\ co = [s \in Sessions |-> NoCheckout]
    /\ job = [s \in Sessions |-> NoJob]
    /\ result = [s \in Sessions |-> NoResult]

NextCart ==
    \/ \E s \in Sessions : AddToCart(s)
    \/ \E s \in Sessions : RemoveFromCart(s)
    \/ \E s \in Sessions : UpdateQuantity(s)

SpecCart == InitCart /\ [][NextCart]_vars

\* The Installments page of the first session, in a time zone west of UTC,
\* at UTC or east of it.  Three sales in two installments are stored, of
\* the clients c1 and c3, both named Ana, and c2, named bia; the first
\* installment of each is pending, overdue or paid and is due today or
\* tomorrow.
TimeZones == {0 - 3, 0, 2}
SearchTerms == {<<>>, <<"A", "N">>, <<"i">>, <<"x">>}
FilterChoices ==
    [searchTerm : SearchTerms,
     statusFilter : {"all", "pending", "paid", "overdue"},
     viewMode : {"all", "today"}]

InitGroups ==
    /\ sales = [i \in 1..3 |->
                  [client_id |-> <<"c1", "c2", "c3">>[i], user_id |-> "ua",
                   total_amount |-> <<10, 5, 20>>[i],
                   payment_method |-> [method |-> "credit_card", times |-> 2],
                   created_at |-> 1]]
    /\ saleItems = {[sale_id |-> 1, product_id |-> "pA", quantity |-> 1,
                     unit_price |-> Price("pA")],
                    [sale_id |-> 2, product_id |-> "pB", quantity |-> 1,
                     unit_price |-> Price("pB")],
                    [sale_id |-> 3, product_id |-> "pA", quantity |-> 2,
                     unit_price |-> Price("pA")]}
    /\ \E first \in [1..3 -> {"pending", "overdue", "paid"}] :
          installments =
             UNION {{IF r.installment_number = 1
                     THEN [r EXCEPT !.status = first[i]] ELSE r :
                        r \in installmentData(
                                 [NoCheckout EXCEPT
                                     !.total = sales[i].total_amount,
                                     !.installments = 2], i, 1)} :
                    i \in 1..3}
    /\ now \in {30, 31}
    /\ \E zone \in TimeZones : timeZone = [s \in Sessions |-> zone]
    /\ stock = [p \in Products |-> MaxStock]
    /\ registers = <<>>
    /\ transactions = <<>>
    /\ purchases = 0
    /\ sold = [s \in Sessions |-> 0]
    /\ price = [p \in Products |-> Price(p)]
    /\ userOf = [s \in Sessions |-> "ua"]
    /\ products = [s \in Sessions |-> ProductList(stock)]
    /\ fetchPending = [s \in Sessions |-> FALSE]
    /\ cart = [s \in Sessions |-> <<>>]
    /\ stockList = [s \in Sessions |-> stock]
    /\ stockPending = [s \in Sessions |-> FALSE]
    /\ register = [s \in Sessions |-> NoId]
    /\ ledger = [s \in Sessions |-> <<>>]
    /\ ledgerPending = [s \in Sessions |-> NoId]
    /\ instList = [s \in Sessions |-> {}]
    /\ instPending = [s \in Sessions |-> s = Operator]
    /\ repair = [s \in Sessions |-> NoRepair]
    /\ filters = [s \in Sessions |-> NoFilters]
    /\ clientGroups = [s \in Sessions |-> <<>>]
    /\ pc = [s \in Sessions |-> "idle"]
    /\ co = [s \in Sessions |-> NoCheckout]
    /\ job = [s \in Sessions |-> NoJob]
    /\ result = [s \in Sessions |-> NoResult]

NextGroups ==
    \/ \E ok \in BOOLEAN : FetchInstallments(Operator, ok)
    \/ \E f \in FilterChoices : SetFilters(Operator, f)

SpecGroups == InitGroups /\ [][NextGroups]_vars

\* One operator in two sessions, with an open register: in the first the
\* operator sells for cash, in the second the CashFlow page shows the
\* register with its transactions loaded, and the operator closes it; the
\* store answers every call.
InitShift ==
    /\ \E u \in Users :
          /\ userOf = [s \in Sessions |-> u]
          /\ registers = OpenedRegister(u, 100).registers
          /\ transactions = OpenedRegister(u, 100).transactions
    /\ stock = [p \in {"pA"} |-> MaxStock]
    /\ sales = <<>>
    /\ saleItems = {}
    /\ installments = {}
    /\ purchases = 0
    /\ sold = [s \in Sessions |-> 0]
    /\ price = [p \in Products |-> Price(p)]
    /\ now = 1
    /\ products = [s \in Sessions |-> ProductList(stock)]
    /\ fetchPending = [s \in Sessions |-> FALSE]
    /\ cart = [s \in Sessions |-> <<>>]
    /\ stockList = [s \in Sessions |-> stock]
    /\ stockPending = [s \in Sessions |-> FALSE]
    /\ register = [s \in Sessions |-> 1]
    /\ ledger = [s \in Sessions |->
                   IF s = Keeper THEN LedgerRows(1) ELSE <<>>]
    /\ ledgerPending = [s \in Sessions |-> NoId]
    /\ instList = [s \in Sessions |-> {}]
    /\ instPending = [s \in Sessions |-> FALSE]
    /\ repair = [s \in Sessions |-> NoRepair]
    /\ filters = [s \in Sessions |-> NoFilters]
    /\ clientGroups = [s \in Sessions |-> <<>>]
    /\ timeZone = [s \in Sessions |-> 0]
    /\ pc = [s \in Sessions |-> "idle"]
    /\ co = [s \in Sessions |-> NoCheckout]
    /\ job = [s \in Sessions |-> NoJob]
    /\ result = [s \in Sessions |-> NoResult]

NextShift ==
    \/ FetchProducts(Operator)
    \/ AddToCart(Operator)
    \/ RemoveFromCart(Operator)
    \/ UpdateQuantity(Operator)
    \/ \E form \in PaymentForms(Clients, {"cash"}, {"pix", "money"},
                                {Num(100)}) :
          CheckoutBegin(Operator, form)
    \/ InsertSale(Operator, TRUE)
    \/ InsertSaleItems(Operator, TRUE)
    \/ StockSelect(Operator, TRUE)
    \/ StockUpdate(Operator, TRUE)
    \/ GenerateReceipt(Operator, TRUE)
    \/ RegisterSelect(Operator, TRUE)
    \/ InsertSaleTransaction(Operator, TRUE)
    \/ FetchCurrentRegister(Keeper, TRUE)
    \/ FetchTransactions(Keeper, TRUE)
    \/ CloseRegisterUpdate(Keeper, TRUE)
    \/ CloseRegisterTransaction(Keeper, TRUE)

SpecShift == InitShift /\ [][NextShift]_vars

\* ----------------------------------------------------------- properties
\* C1: in every reachable state the stored stock quantity of every product
\* is >= 0, whatever the interleaving of checkouts, stock adjustments and
\* purchases of two sessions on the same product.
StockNeverNegative == \A p \in DOMAIN stock : stock[p] >= 0

\* C2: in every reachable state each operator has at most one cash register
\* with status 'open', also when the register is opened from a second
\* session whose view shows no register.
AtMostOneOpenRegister ==
    \A u \in Users : Cardinality(OpenRegisters(u)) <= 1

\* C3: a checkout run with no client, or with an empty cart, or as a cash
\* sale paid in money with less than the cart total, is rejected, and it
\* issues no write: the store is unchanged and no store call is started.
InvalidCheckoutWritesNothing ==
    [][\A form \in OperatorForms :
          LET invalid ==
                  \/ form.client = NoClient
                  \/ cart[Operator] = <<>>
                  \/ /\ form.paymentType = "cash"
                     /\ form.paymentMethod = "money"
                     /\ JsLt(form.amountPaid, Num(total(cart[Operator])))
          IN (CheckoutBegin(Operator, form) /\ invalid)
                => /\ UNCHANGED storeVars
                   /\ UNCHANGED <<pc, co>>
                   /\ result'[Operator].outcome = "rejected"]_vars

\* C3 witness: a checkout was rejected for an insufficient amount paid.
InsufficientAmountRejected ==
    /\ result[Operator].outcome = "rejected"
    /\ result[Operator].alert = "Valor pago insuficiente"
    /\ cart[Operator] # <<>>
    /\ sales = <<>>

\* C4: when a checkout ends with the success alert, the stock of every cart
\* line is its value before the checkout minus the quantity sold, whatever
\* the role of the operator and the answers of the store.
SuccessDecrementsStock ==
    [][(/\ pc[Operator] # "idle"
        /\ pc'[Operator] = "idle"
        /\ result'[Operator].outcome = "success")
          => LET c == co[Operator]
             IN \A i \in 1..Len(c.cart) :
                   stock'[c.cart[i].id] =
                       c.stockBefore[c.cart[i].id] - c.cart[i].quantity]_vars

\* C5: when a checkout ends with the success alert, installments of the sale
\* exist iff the payment type was installment; then there are exactly N of
\* them, numbered 1..N, all pending, each of amount total / N, the k-th due
\* 30 * k days after the checkout.
SuccessInstallments ==
    [][(/\ pc[Operator] # "idle"
        /\ pc'[Operator] = "idle"
        /\ result'[Operator].outcome = "success")
          => LET c == co[Operator]
                 rows == {r \in installments' : r.sale_id = c.sale}
             IN /\ (rows # {}) <=> (c.paymentType = "installment")
                /\ c.paymentType = "installment" =>
                      /\ Cardinality(rows) = c.installments
                      /\ {r.installment_number : r \in rows} =
                             1..c.installments
                      /\ \A r \in rows :
                            /\ r.status = "pending"
                            /\ QuotEq(r.amount, c.total, c.installments)
                            /\ r.due_date = sales'[c.sale].created_at
                                              + 30 * r.installment_number]_vars

\* C5 witness: an installment checkout has ended with the success alert and
\* its installments are stored.
InstallmentSaleSucceeded ==
    /\ result[Operator].outcome = "success"
    /\ result[Operator].sale # NoId
    /\ sales[result[Operator].sale].payment_method.method = "credit_card"
    /\ \E r \in installments : r.sale_id = result[Operator].sale

\* C6: when a checkout ends with the success alert, a cash transaction of
\* type 'sale' for that sale exists iff the payment type was cash and the
\* operator had an open register when the checkout looked for it.
SuccessSaleTransaction ==
    [][(/\ pc[Operator] # "idle"
        /\ pc'[Operator] = "idle"
        /\ result'[Operator].outcome = "success")
          => LET c == co[Operator]
                 written == \E i \in 1..Len(transactions') :
                               /\ transactions'[i].type = "sale"
                               /\ transactions'[i].sale_id = c.sale
             IN written <=> (/\ c.paymentType = "cash"
                             /\ result'[Operator].openAtLookup)]_vars

\* C7: the cash transaction a cash checkout writes has amount
\* min(amount paid, total) when the method is money, and the total for
\* every other method.
SaleTransactionAmount ==
    [][(/\ pc[Operator] = "insert_transaction"
        /\ Len(transactions') > Len(transactions))
          => LET c == co[Operator]
                 t == transactions'[Len(transactions')]
             IN /\ Len(transactions') = Len(transactions) + 1
                /\ t.type = "sale"
                /\ t.sale_id = c.sale
                /\ t.amount = IF c.paymentMethod = "money"
                              THEN Min(c.amountPaid[1], c.total)
                              ELSE c.total]_vars

\* C7 witness: a sale paid in money has its cash transaction stored, for
\* the total of the sale.
MoneySaleTransactionWritten ==
    \E i \in 1..Len(transactions) :
        /\ transactions[i].type = "sale"
        /\ sales[transactions[i].sale_id].payment_method.method = "money"
        /\ transactions[i].amount = sales[transactions[i].sale_id].total_amount

\* C8: a checkout one of whose store calls failed does not end with the
\* success alert.
SuccessMeansNoFailure ==
    result[Operator].outcome = "success" => result[Operator].errors = {}

\* C9: after a store call of the checkout has failed, no later step of that
\* checkout writes to the store.
NoWriteAfterFailure ==
    [][co[Operator].errors # {} => UNCHANGED storeVars]_vars

\* C10: when a checkout ends in its catch block, the store is left exactly
\* as the earlier steps wrote it: nothing is deleted, nothing is updated.
FailureUndoesNothing ==
    [][(/\ pc[Operator] # "idle"
        /\ pc'[Operator] = "idle"
        /\ result'[Operator].outcome = "error")
          => UNCHANGED storeVars]_vars

\* C10 witness: a checkout has failed at the receipt, after its sale, its
\* sale items and its stock decrement were written, and all are still stored.
FailedAfterStockDecrement ==
    /\ result[Operator].outcome = "error"
    /\ result[Operator].errors = {"receipt"}
    /\ result[Operator].sale <= Len(sales)
    /\ \E i \in saleItems :
          /\ i.sale_id = result[Operator].sale
          /\ stock[i.product_id] = MaxStock - i.quantity

\* sum of quantity * unit_price over a set of sale_items rows
RECURSIVE itemsTotal(_)
itemsTotal(rows) ==
    IF rows = {} THEN 0
    ELSE LET r == CHOOSE x \in rows : TRUE
         IN r.quantity * r.unit_price + itemsTotal(rows \ {r})

\* C11: whenever no checkout is in progress, the total amount of every
\* stored sale is the sum of quantity * unit price over its stored items.
SaleTotalIsItemsTotal ==
    pc[Operator] = "idle" =>
        \A i \in 1..Len(sales) :
            sales[i].total_amount =
                itemsTotal({r \in saleItems : r.sale_id = i})

\* C12: whenever no checkout is in progress, a sale tagged as paid in N
\* installments has exactly N installments and a sale tagged with a direct
\* method has none.
InstallmentsMatchSaleTag ==
    pc[Operator] = "idle" =>
        \A i \in 1..Len(sales) :
            LET rows == {r \in installments : r.sale_id = i}
                tag == sales[i].payment_method
            IN IF tag.method = "credit_card"
               THEN Cardinality(rows) = tag.times
               ELSE rows = {}

CloseWritesStatusAndTransaction ==
    [][\A s \in Sessions :
          (pc[s] = "close_transaction" /\ pc'[s] = "idle")
            => LET r == job[s].reg
                   closing == {i \in 1..Len(transactions') :
                                 /\ transactions'[i].type = "closing"
                                 /\ transactions'[i].register_id = r}
               IN /\ registers'[r].status = "closed"
                  /\ registers'[r].final_balance = Some(job[s].balance)
                  /\ Cardinality(closing) = 1
                  /\ \A i \in closing :
                        transactions'[i].amount = job[s].balance]_vars

\* C15: when an open ends without an error, the new register is open with
\* the initial balance entered and exactly one 'opening' transaction of that
\* register exists, its amount being that initial balance.
OpenWritesRegisterAndTransaction ==
    [][\A s \in Sessions :
          (pc[s] = "open_transaction" /\ pc'[s] = "idle")
            => LET r == job[s].reg
                   opening == {i \in 1..Len(transactions') :
                                 /\ transactions'[i].type = "opening"
                                 /\ transactions'[i].register_id = r}
               IN /\ registers'[r].status = "open"
                  /\ registers'[r].initial_balance = job[s].balance
                  /\ Cardinality(opening) = 1
                  /\ \A i \in opening :
                        transactions'[i].amount = job[s].balance]_vars

\* C20 as stated: the closing transaction is written before the register is
\* marked closed, so no closed register is without its closing transaction.
ClosedHasClosingTransaction ==
    \A r \in 1..Len(registers) :
        registers[r].status = "closed" =>
            \E i \in 1..Len(transactions) :
                /\ transactions[i].type = "closing"
                /\ transactions[i].register_id = r

\* C20: the register is marked closed first and the closing transaction is
\* written after it: every 'closing' transaction belongs to a register that
\* is already closed, with the transaction's amount as final balance.
ClosingTransactionOfClosedRegister ==
    \A i \in 1..Len(transactions) :
        transactions[i].type = "closing" =>
            /\ registers[transactions[i].register_id].status = "closed"
            /\ registers[transactions[i].register_id].final_balance # None

\* C20 witness: a register has been closed and its closing transaction
\* written.
RegisterClosedWithTransaction ==
    /\ registers[1].status = "closed"
    /\ \E i \in 1..Len(transactions) :
          /\ transactions[i].type = "closing"
          /\ transactions[i].register_id = 1
          /\ Some(transactions[i].amount) = registers[1].final_balance

\* C16: when a payment of an installment ends without an error, the
\* installment is stored as paid; if the operator has no open register no
\* cash transaction was written, and otherwise exactly one transaction of
\* type 'installment_payment' was appended, for that installment and of its
\* amount.
PaymentMarksPaidAndRecords ==
    [][\A s \in Sessions :
          (pc[s] \in {"payment_register", "payment_transaction"}
              /\ pc'[s] = "idle")
            => /\ \E r \in installments' :
                     /\ InstallmentId(r) = job[s].installment
                     /\ r.status = "paid"
                     /\ r.amount = job[s].amount
               /\ IF pc[s] = "payment_register"
                  THEN OpenRegisters(userOf[s]) = {}
                  ELSE /\ Len(transactions') = Len(transactions) + 1
                       /\ LET t == transactions'[Len(transactions')]
                          IN /\ t.type = "installment_payment"
                             /\ t.installment_id = job[s].installment
                             /\ t.amount = job[s].amount]_vars

\* C17: a stored installment is changed only by being paid: every step
\* keeps its amount, number, due date and sale, and either keeps its
\* status or takes it from pending or overdue to paid.
InstallmentOnlyBecomesPaid ==
    [][/\ Cardinality(installments') = Cardinality(installments)
       /\ \A r \in installments :
             \E r2 \in installments' :
                /\ r2.sale_id = r.sale_id
                /\ r2.installment_number = r.installment_number
                /\ r2.due_date = r.due_date
                /\ r2.amount = r.amount
                /\ \/ r2.status = r.status
                   \/ /\ r.status \in {"pending", "overdue"}
                      /\ r2.status = "paid"]_vars

\* C17 witness: an installment that was overdue is stored as paid while the
\* other one is still pending.
OverdueInstallmentPaid ==
    /\ \E r \in installments :
          r.installment_number = 1 /\ r.status = "paid"
    /\ \E r \in installments :
          r.installment_number = 2 /\ r.status = "pending"
    /\ \E s \in Sessions :
          \E r \in instList[s] :
             r.installment_number = 1 /\ r.status = "overdue"

\* C18: in every cart reached by adding, changing and removing lines, a
\* product has at most one line and a line's quantity is between 1 and the
\* stock quantity of its product; adding a product whose line is at that
\* quantity, and changing a quantity to a value outside that range, give
\* the same cart.
CartWithinStock ==
    \A s \in Sessions :
       /\ \A i, j \in 1..Len(cart[s]) :
             cart[s][i].id = cart[s][j].id => i = j
       /\ \A i \in 1..Len(cart[s]) :
             /\ 1 <= cart[s][i].quantity
             /\ cart[s][i].quantity <= stock[cart[s][i].id]
             /\ \A product \in products[s] :
                   (product.id = cart[s][i].id
                       /\ cart[s][i].quantity = product.stock_quantity)
                     => addToCart(cart[s], product) = cart[s]
             /\ \A delta \in (0 - MaxStock)..MaxStock :
                   cart[s][i].quantity + delta \notin 1..stock[cart[s][i].id]
                     => updateQuantity(cart[s], cart[s][i].id, delta)
                          = cart[s]

\* C18 witness: a cart of two lines, one of them of two units or more and
\* at the stock quantity of its product.
CartLineAtStock ==
    \E s \in Sessions :
       /\ Len(cart[s]) = 2
       /\ \E i \in 1..2 :
             /\ cart[s][i].quantity >= 2
             /\ cart[s][i].quantity = stock[cart[s][i].id]

\* C19: the total of a cart is the sum of quantity times unit price over
\* its lines, where the unit price of a line is the price its product had
\* in the list when the line was added and never changes afterwards; a
\* change of the stored price changes no cart and no total, and the unit
\* price of a sale item is the unit price of its cart line.
PriceSnapshotKept ==
    [][\A s \in Sessions :
          LET RECURSIVE lineSum(_, _)
              lineSum(c, n) ==
                 IF n = 0 THEN 0
                 ELSE c[n].quantity * c[n].price + lineSum(c, n - 1)
          IN /\ total(cart'[s]) = lineSum(cart'[s], Len(cart'[s]))
             /\ \A j \in 1..Len(cart'[s]) :
                   IF CartIndex(cart[s], cart'[s][j].id) # {}
                   THEN \A i \in CartIndex(cart[s], cart'[s][j].id) :
                           cart'[s][j].price = cart[s][i].price
                   ELSE \E product \in products[s] :
                           /\ product.id = cart'[s][j].id
                           /\ product.price = cart'[s][j].price
             /\ price' # price =>
                   /\ cart'[s] = cart[s]
                   /\ co'[s] = co[s]
             /\ (pc[s] = "idle" /\ pc'[s] = "insert_sale") =>
                   /\ co'[s].cart = cart[s]
                   /\ co'[s].total = lineSum(cart[s], Len(cart[s]))
             /\ (pc[s] # "idle" /\ pc'[s] # "idle") =>
                   /\ co'[s].cart = co[s].cart
                   /\ co'[s].total = co[s].total
             /\ (pc[s] = "insert_items" /\ saleItems' # saleItems) =>
                   \A r \in saleItems' \ saleItems :
                      \E i \in 1..Len(co[s].cart) :
                         /\ r.product_id = co[s].cart[i].id
                         /\ r.quantity = co[s].cart[i].quantity
                         /\ r.unit_price = co[s].cart[i].price]_vars

\* C19 witness: a sale is stored whose total and whose item carry the price
\* the product had when it was put in the cart, and the stored price of the
\* product is another one.
SoldAtSnapshotPrice ==
    \E r \in saleItems :
       /\ r.unit_price # price[r.product_id]
       /\ r.unit_price = Price(r.product_id)
       /\ sales[r.sale_id].total_amount = r.quantity * r.unit_price

\* C21: every step keeps every stored cash transaction in its place with
\* its register, type, references and amount, except that the amount of a
\* transaction of type sale with a sale reference and amount 0 may change.
TransactionsAppendOnly ==
    [][/\ Len(transactions') >= Len(transactions)
       /\ \A i \in 1..Len(transactions) :
             \/ transactions'[i] = transactions[i]
             \/ /\ transactions[i].type = "sale"
                /\ transactions[i].sale_id # NoId
                /\ transactions[i].amount = 0
                /\ transactions'[i] =
                      [transactions[i] EXCEPT
                          !.amount = transactions'[i].amount]]_vars

\* C21 witness: a sale transaction that a view still shows with amount 0 is
\* stored with the total of its sale, and a closing transaction was
\* appended after it.
ZeroTransactionRepaired ==
    /\ \E s \in Sessions :
          \E k \in 1..Len(ledger[s]) :
             /\ ledger[s][k].amount = 0
             /\ transactions[ledger[s][k].id].amount # 0
             /\ transactions[ledger[s][k].id].amount =
                   sales[ledger[s][k].sale_id].total_amount
    /\ transactions[Len(transactions)].type = "closing"

\* C22: when fixZeroTransactions ends, no transaction of the register of
\* type sale whose sale has a total other than 0 is stored with amount 0.
RepairLeavesNoZero ==
    [][\A s \in Sessions :
          (repair[s] # NoRepair /\ repair'[s] = NoRepair)
            => \A i \in 1..Len(transactions') :
                  (/\ transactions'[i].register_id = repair[s].reg
                   /\ transactions'[i].type = "sale"
                   /\ transactions'[i].sale_id # NoId
                   /\ transactions'[i].amount = 0)
                    => sales[transactions'[i].sale_id].total_amount = 0]_vars

\* C29: fixZeroTransactions runs finitely many times: from some point on no
\* session has one running.
RepairTerminates ==
    <>[](\A s \in Sessions : repair[s] = NoRepair)

\* C23: the stock update of a checkout writes the quantity the checkout
\* read minus the quantity of its line, also when the stored quantity is no
\* longer the one it read: a decrement written in between by the other
\* session is lost.
StockWrittenFromRead ==
    [][\A s \in Sessions :
          (pc[s] = "stock_update" /\ pc'[s] # "stock_update")
            => LET item == co[s].cart[co[s].line]
               IN /\ stock'[item.id] =
                        co[s].currentProduct[1] - item.quantity
                  /\ stock[item.id] < co[s].currentProduct[1]
                       => stock'[item.id] > stock[item.id] - item.quantity]_vars

\* C23 witness: both sessions have sold pA with the success alert and the
\* stock is greater than the initial stock minus the two quantities sold.
LostUpdate ==
    /\ \A s \in Sessions : pc[s] = "idle" /\ result[s].outcome = "success"
    /\ result["s1"].sale # result["s2"].sale
    /\ \E r1, r2 \in saleItems :
          /\ r1.sale_id = result["s1"].sale
          /\ r2.sale_id = result["s2"].sale
          /\ r1.product_id = "pA"
          /\ r2.product_id = "pA"
          /\ stock["pA"] > MaxStock - (r1.quantity + r2.quantity)

\* C24: the groups shown are those of the installments of the list that
\* match the search term, the status filter and, in the view of today, are
\* due today: each of them is in exactly one group, the one of its client
\* name, and no other installment is in a group; totalPending and
\* totalOverdue of a group are the sums of the amounts of its pending and of
\* its overdue installments; the groups are in ascending order of name.
GroupsOfMatchingInstallments ==
    LET s == Operator
        g == clientGroups[s]
        f == filters[s]
        Matching ==
           {inst \in instList[s] :
               /\ includes(toLowerCase(clientNameOf(inst)),
                           toLowerCase(f.searchTerm))
               /\ f.statusFilter \in {"all", inst.status}
               /\ f.viewMode = "today" => inst.due_date = now}
        Members(k) == {g[k].installments[i] :
                          i \in 1..Len(g[k].installments)}
        RECURSIVE sumOf(_)
        sumOf(rows) ==
           IF rows = {} THEN Quot(0, 1)
           ELSE LET r == CHOOSE x \in rows : TRUE
                IN QuotAdd(r.amount, sumOf(rows \ {r}))
        Same(a, b) == a.num * b.den = b.num * a.den
    IN /\ \A inst \in Matching :
             /\ Cardinality({k \in 1..Len(g) : inst \in Members(k)}) = 1
             /\ \A k \in 1..Len(g) :
                   inst \in Members(k) => g[k].clientName = clientNameOf(inst)
       /\ \A k \in 1..Len(g) :
             /\ Members(k) \subseteq Matching
             /\ Len(g[k].installments) = Cardinality(Members(k))
             /\ Same(g[k].totalPending,
                     sumOf({r \in Members(k) : r.status = "pending"}))
             /\ Same(g[k].totalOverdue,
                     sumOf({r \in Members(k) : r.status = "overdue"}))
       /\ \A k \in 1..(Len(g) - 1) :
             localeCompare(g[k].clientName, g[k + 1].clientName) < 0

\* C25: when a register is closed, the final_balance stored on it is the
\* sum of the transactions stored for it at that moment, withdrawals
\* subtracted and every other type but closing added.
FinalBalanceOfStoredTransactions ==
    [][\A r \in 1..Len(registers) :
          (registers[r].status = "open" /\ registers'[r].status = "closed")
            => registers'[r].final_balance =
                  Some(calculateBalance(
                          SelectSeq(transactions,
                                    LAMBDA t : /\ t.register_id = r
                                               /\ t.type # "closing")))]_vars

\* C26: a transaction of type sale or installment_payment is appended only
\* to a register whose status is open.
PaymentsOnlyToOpenRegister ==
    [][\A i \in (Len(transactions) + 1)..Len(transactions') :
          transactions'[i].type \in {"sale", "installment_payment"}
            => registers[transactions'[i].register_id].status = "open"]_vars

\* C27: no two cash transactions of type installment_payment are stored for
\* the same installment.
OnePaymentPerInstallment ==
    \A i, j \in InstallmentPayments :
       transactions[i].installment_id = transactions[j].installment_id
         => i = j

\* C28: every stored cash transaction of type installment_payment is for an
\* installment whose stored status is paid.
PaymentOfPaidInstallment ==
    \A i \in InstallmentPayments :
       \E r \in installments :
          /\ InstallmentId(r) = transactions[i].installment_id
          /\ r.status = "paid"

\* C30: every stored cash transaction of type sale has the total amount of
\* its sale as amount, whatever the payment method and the amount tendered
\* of the checkout that wrote it.
SaleTransactionIsSaleTotal ==
    \A i \in 1..Len(transactions) :
       transactions[i].type = "sale"
         => /\ transactions[i].sale_id \in 1..Len(sales)
            /\ transactions[i].amount =
                  sales[transactions[i].sale_id].total_amount

\* C30 witness: a sale of two units paid in money, for which more than the
\* total was tendered, has its cash transaction stored.
MoneySaleOfTwoUnitsRecorded ==
    \E i \in 1..Len(transactions) :
       /\ transactions[i].type = "sale"
       /\ sales[transactions[i].sale_id].payment_method.method = "money"
       /\ sales[transactions[i].sale_id].total_amount = 2 * Price("pA")
       /\ transactions[i].amount = 2 * Price("pA")

====
